---- MODULE Spec2Model ----
(***************************************************************************)
(* mongoose-lean-extension: the post("find"/"findOne") hook that rewrites  *)
(* lean query results (index.js, mongooseLeanExtension) and the nested     *)
(* path rewriter it uses (util/stringifyPaths.js, applyStringifyAtPath).   *)
(*                                                                         *)
(* JavaScript values are tagged records.  The result graph handed to the   *)
(* hook is a tree (a lean result shares no sub-objects), so an in-place    *)
(* mutation through a reference is modelled as the replacement of the      *)
(* subtree at that position.                                               *)
(***************************************************************************)
EXTENDS Integers, Sequences, FiniteSets, TLC

VARIABLES
    result,     \* the graph the query produced, as the caller holds it
    options,    \* this._mongooseOptions ?? this.getOptions()
    cfg,        \* the hook's locals stringifyKeys, showVersion, stringifyId, rename
    pc,         \* the position of the running call
    calls,      \* the signals given to the continuation next, in order
    input,      \* the graph as it was when the call started
    pathArg,    \* the path argument of a direct call of applyStringifyAtPath
    chain       \* the post hooks registered on the schema, in registration order

vars == <<result, options, cfg, pc, calls, input, pathArg, chain>>

(***************************************************************************)
(* Bounds of the model.                                                    *)
(***************************************************************************)
\* longest array a find() query returns
MaxDocs == 2
\* longest array of subdocuments handed to applyStringifyAtPath
MaxSub == 2
\* most tokens in a path handed to applyStringifyAtPath
MaxPathLen == 3

(***************************************************************************)
(* JavaScript values.                                                      *)
(***************************************************************************)
Undef == [t |-> "undefined"]

Null == [t |-> "null"]

Bool(b) == [t |-> "boolean", b |-> b]

\* the number n + tenths/10
Num(n, tenths) == [t |-> "number", n |-> n, tenths |-> tenths]

Str(s) == [t |-> "string", s |-> s]

\* a mongoose.Types.ObjectId; id abstracts its bytes
ObjectId(id) == [t |-> "ObjectId", id |-> id]

\* a plain object; f maps its own property names to their values
Obj(f) == [t |-> "object", f |-> f]

Arr(e) == [t |-> "array", e |-> e]

EmptyObj == Obj(<<>>)

\* a string used as a path expression, kept as the sequence of its tokens
Path(tokens) == [t |-> "string", path |-> tokens]

\* typeof v === "string"
IsString(v) == v.t = "string"

\* ToBoolean
Truthy(v) ==
    CASE v.t = "undefined" -> FALSE
      [] v.t = "null" -> FALSE
      [] v.t = "boolean" -> v.b
      [] v.t = "number" -> ~(v.n = 0 /\ v.tenths = 0)
      [] v.t = "string" -> IF "path" \in DOMAIN v THEN v.path # <<>> ELSE v.s # ""
      [] OTHER -> TRUE

\* Array.isArray
IsArray(v) == v.t = "array"

\* typeof v === "object" (null excluded by the callers' truthiness test)
TypeofObject(v) == v.t \in {"object", "array", "ObjectId", "null"}

\* Number.isInteger
IsInteger(v) == v.t = "number" /\ v.tenths = 0

\* v instanceof mongoose.Types.ObjectId
InstanceofObjectId(v) == v.t = "ObjectId"

\* typeof v.toHexString === "function"
HasToHexString(v) == v.t = "ObjectId"

\* own property test
Has(o, k) == o.t = "object" /\ k \in DOMAIN o.f

\* o[k] and the optional chain o?.[k]: undefined when o has no such property
Get(o, k) == IF Has(o, k) THEN o.f[k] ELSE Undef

\* o[k] = v on a plain object
Set(o, k, v) == Obj([x \in (DOMAIN o.f) \cup {k} |-> IF x = k THEN v ELSE o.f[x]])

\* delete o[k]
Delete(o, k) == Obj([x \in (DOMAIN o.f) \ {k} |-> o.f[x]])

HexDigits == <<"0", "1", "2", "3", "4", "5", "6", "7", "8", "9", "a", "b", "c", "d", "e", "f">>

\* ObjectId.prototype.toHexString: the bytes written as hexadecimal digits
toHexString(v) == Str(HexDigits[(v.id \div 16) + 1] \o HexDigits[(v.id % 16) + 1])

\* ObjectId.prototype.toString is toHexString
toString(v) == toHexString(v)

(***************************************************************************)
(* Path expressions.  A path string is the sequence of its tokens: a token *)
(* is either the separator "." or a property name.                         *)
(***************************************************************************)
Dot == "."

RECURSIVE SplitFrom(_, _, _)
\* the segments of path from position i on, cur being the segment under way
SplitFrom(path, i, cur) ==
    IF i > Len(path) THEN <<cur>>
    ELSE IF path[i] = Dot THEN <<cur>> \o SplitFrom(path, i + 1, <<>>)
    ELSE SplitFrom(path, i + 1, Append(cur, path[i]))

\* the property name a segment spells: "" for the empty segment; a segment of
\* several names is a name no object of the model carries
KeyOf(seg) ==
    IF Len(seg) = 0 THEN ""
    ELSE IF Len(seg) = 1 THEN seg[1]
    ELSE "<other>"

\* path.split(".")
split(path) == LET segs == SplitFrom(path, 1, <<>>) IN [i \in 1..Len(segs) |-> KeyOf(segs[i])]

(***************************************************************************)
(* util/stringifyPaths.js                                                  *)
(***************************************************************************)
RECURSIVE recurse(_, _)
\* recurse with a fan-out that stops after the first item of an array
recurseFirstItem(current, remainingParts) ==
    IF ~Truthy(current) THEN current
    ELSE IF IsArray(current)
    THEN Arr([i \in 1..Len(current.e) |->
                IF i = 1 THEN recurse(current.e[i], remainingParts) ELSE current.e[i]])
    ELSE LET key == Head(remainingParts)
             rest == Tail(remainingParts)
         IN IF Len(rest) = 0
            THEN IF /\ Truthy(Get(current, key))
                    /\ TypeofObject(Get(current, key))
                    /\ HasToHexString(Get(current, key))
                 THEN Set(current, key, toHexString(Get(current, key)))
                 ELSE current
            ELSE IF Has(current, key)
                 THEN Set(current, key, recurse(Get(current, key), rest))
                 ELSE current

\* recurse with a fan-out that hands each item of an array the rest of the
\* segments, as if the position in the array were a segment
recurseConsumes(current, remainingParts) ==
    IF ~Truthy(current) THEN current
    ELSE IF IsArray(current)
    THEN Arr([i \in 1..Len(current.e) |->
                IF Len(remainingParts) > 1
                THEN recurse(current.e[i], Tail(remainingParts))
                ELSE current.e[i]])
    ELSE LET key == Head(remainingParts)
             rest == Tail(remainingParts)
         IN IF Len(rest) = 0
            THEN IF /\ Truthy(Get(current, key))
                    /\ TypeofObject(Get(current, key))
                    /\ HasToHexString(Get(current, key))
                 THEN Set(current, key, toHexString(Get(current, key)))
                 ELSE current
            ELSE IF Has(current, key)
                 THEN Set(current, key, recurse(Get(current, key), rest))
                 ELSE current

\* recurse whose last segment assigns current[key]?.toHexString?.() without a test
recurseAlwaysAssign(current, remainingParts) ==
    IF ~Truthy(current) THEN current
    ELSE IF IsArray(current)
    THEN Arr([i \in 1..Len(current.e) |-> recurse(current.e[i], remainingParts)])
    ELSE LET key == Head(remainingParts)
             rest == Tail(remainingParts)
         IN IF Len(rest) = 0
            THEN IF current.t = "object"
                 THEN Set(current, key,
                          IF HasToHexString(Get(current, key))
                          THEN toHexString(Get(current, key))
                          ELSE Undef)
                 ELSE current
            ELSE IF Has(current, key)
                 THEN Set(current, key, recurse(Get(current, key), rest))
                 ELSE current

\* recurse with a fan-out that drops the null and undefined items of the array
recurseDropsFalsy(current, remainingParts) ==
    IF ~Truthy(current) THEN current
    ELSE IF IsArray(current)
    THEN Arr(SelectSeq([i \in 1..Len(current.e) |-> recurse(current.e[i], remainingParts)],
                       Truthy))
    ELSE LET key == Head(remainingParts)
             rest == Tail(remainingParts)
         IN IF Len(rest) = 0
            THEN IF /\ Truthy(Get(current, key))
                    /\ TypeofObject(Get(current, key))
                    /\ HasToHexString(Get(current, key))
                 THEN Set(current, key, toHexString(Get(current, key)))
                 ELSE current
            ELSE IF Has(current, key)
                 THEN Set(current, key, recurse(Get(current, key), rest))
                 ELSE current

\* recurse whose last segment, on a field holding an array, converts the
\* ObjectIds that are items of that array
recurseTerminalFanOut(current, remainingParts) ==
    IF ~Truthy(current) THEN current
    ELSE IF IsArray(current)
    THEN Arr([i \in 1..Len(current.e) |-> recurse(current.e[i], remainingParts)])
    ELSE LET key == Head(remainingParts)
             rest == Tail(remainingParts)
         IN IF Len(rest) = 0
            THEN IF IsArray(Get(current, key))
                 THEN Set(current, key,
                          Arr([i \in 1..Len(Get(current, key).e) |->
                                IF HasToHexString(Get(current, key).e[i])
                                THEN toHexString(Get(current, key).e[i])
                                ELSE Get(current, key).e[i]]))
                 ELSE IF /\ Truthy(Get(current, key))
                         /\ TypeofObject(Get(current, key))
                         /\ HasToHexString(Get(current, key))
                      THEN Set(current, key, toHexString(Get(current, key)))
                      ELSE current
            ELSE IF Has(current, key)
                 THEN Set(current, key, recurse(Get(current, key), rest))
                 ELSE current

\* recurse with a fan-out that a null or undefined item ends for the items after it
recurseStopAtFalsy(current, remainingParts) ==
    IF ~Truthy(current) THEN current
    ELSE IF IsArray(current)
    THEN Arr([i \in 1..Len(current.e) |->
                IF \E j \in 1..i : ~Truthy(current.e[j])
                THEN current.e[i]
                ELSE recurse(current.e[i], remainingParts)])
    ELSE LET key == Head(remainingParts)
             rest == Tail(remainingParts)
         IN IF Len(rest) = 0
            THEN IF /\ Truthy(Get(current, key))
                    /\ TypeofObject(Get(current, key))
                    /\ HasToHexString(Get(current, key))
                 THEN Set(current, key, toHexString(Get(current, key)))
                 ELSE current
            ELSE IF Has(current, key)
                 THEN Set(current, key, recurse(Get(current, key), rest))
                 ELSE current

\* the value standing where current stood once recurse(current, remainingParts) returns
recurse(current, remainingParts) ==
    IF ~Truthy(current) THEN current
    ELSE IF IsArray(current)
    THEN Arr([i \in 1..Len(current.e) |-> recurse(current.e[i], remainingParts)])
    ELSE LET key == Head(remainingParts)
             rest == Tail(remainingParts)
         IN IF Len(rest) = 0
            THEN IF /\ Truthy(Get(current, key))
                    /\ TypeofObject(Get(current, key))
                    /\ HasToHexString(Get(current, key))
                 THEN Set(current, key, toHexString(Get(current, key)))
                 ELSE current
            ELSE IF Has(current, key)
                 THEN Set(current, key, recurse(Get(current, key), rest))
                 ELSE current
\* reading a property of v raises a TypeError
ReadRaises(v) == v.t \in {"undefined", "null"}

RECURSIVE recurseRaises(_, _)
\* recurseRaises without the early exit of line 9
recurseRaisesUnguarded(current, remainingParts) ==
    IF IsArray(current)
    THEN \E i \in 1..Len(current.e) : recurseRaises(current.e[i], remainingParts)
    ELSE LET key == Head(remainingParts)
             rest == Tail(remainingParts)
         IN IF Len(rest) = 0
            THEN \/ ReadRaises(current)
                 \/ /\ Truthy(Get(current, key))
                    /\ TypeofObject(Get(current, key))
                    /\ ReadRaises(Get(current, key))
            ELSE \/ ReadRaises(current)
                 \/ recurseRaises(Get(current, key), rest)

\* recurse(current, remainingParts) raises: one of its property reads, current[key]
\* or current[key].toHexString, is made on null or undefined
recurseRaises(current, remainingParts) ==
    IF ~Truthy(current) THEN FALSE
    ELSE IF IsArray(current)
    THEN \E i \in 1..Len(current.e) : recurseRaises(current.e[i], remainingParts)
    ELSE LET key == Head(remainingParts)
             rest == Tail(remainingParts)
         IN IF Len(rest) = 0
            THEN \/ ReadRaises(current)
                 \/ /\ Truthy(Get(current, key))
                    /\ TypeofObject(Get(current, key))
                    /\ ReadRaises(Get(current, key))
            ELSE \/ ReadRaises(current)
                 \/ recurseRaises(Get(current, key), rest)

applyStringifyAtPath(obj, path) == recurse(obj, split(path))

\* applyStringifyAtPath(obj, path) raises, path being a string
applyStringifyAtPathRaises(obj, path) == recurseRaises(obj, split(path))

(***************************************************************************)
(* index.js: the post hook of mongooseLeanExtension.                       *)
(***************************************************************************)
\* the records the hook's loops run over: result itself, or [result]
Docs(r) == IF IsArray(r) THEN r.e ELSE <<r>>

\* WithDocs when the rebinding result = [result] reaches the caller
WithDocsWrapped(r, docs) == Arr(docs)

\* the caller's graph once the records docs have been mutated in place: the
\* hook's rebinding result = [result] is local and never reaches the caller
WithDocs(r, docs) == IF IsArray(r) THEN Arr(docs) ELSE docs[1]

\* a destructuring default: used when the property is undefined
Default(v, d) == IF v = Undef THEN d ELSE v

\* Destructure with stringifyId = false as the default
DestructureIdOff(lean) ==
    [stringifyKeys |-> Default(Get(lean, "stringifyKeys"), Arr(<<>>)),
     showVersion |-> Default(Get(lean, "showVersion"), Bool(FALSE)),
     stringifyId |-> Default(Get(lean, "stringifyId"), Bool(FALSE)),
     rename |-> Get(lean, "rename")]

\* const { stringifyKeys = [], showVersion = false, stringifyId = true, rename } = options.lean
Destructure(lean) ==
    [stringifyKeys |-> Default(Get(lean, "stringifyKeys"), Arr(<<>>)),
     showVersion |-> Default(Get(lean, "showVersion"), Bool(FALSE)),
     stringifyId |-> Default(Get(lean, "stringifyId"), Bool(TRUE)),
     rename |-> Get(lean, "rename")]

\* the locals before the destructuring has run
NoCfg == [stringifyKeys |-> Undef, showVersion |-> Undef, stringifyId |-> Undef, rename |-> Undef]

RECURSIVE ApplyPaths(_, _, _)
\* ApplyPaths leaving the loop after the first path
ApplyPathsFirstOnly(doc, keys, j) ==
    IF j > Len(keys) THEN [doc |-> doc, threw |-> FALSE]
    ELSE IF ~IsString(keys[j]) THEN [doc |-> doc, threw |-> TRUE]
    ELSE [doc |-> applyStringifyAtPath(doc, keys[j].path), threw |-> FALSE]

\* for (const path of stringifyKeys) applyStringifyAtPath(doc, path), from the
\* j-th path on; path.split throws a TypeError when path is not a string
ApplyPaths(doc, keys, j) ==
    IF j > Len(keys) THEN [doc |-> doc, threw |-> FALSE]
    ELSE IF ~IsString(keys[j]) THEN [doc |-> doc, threw |-> TRUE]
    ELSE ApplyPaths(applyStringifyAtPath(doc, keys[j].path), keys, j + 1)

RECURSIVE StringifyDocs(_, _, _)
\* for (const doc of docs) ..., from the i-th record on
StringifyDocs(docs, i, keys) ==
    IF i > Len(docs) THEN [docs |-> docs, threw |-> FALSE]
    ELSE LET r == ApplyPaths(docs[i], keys, 1)
         IN IF r.threw
            THEN [docs |-> [docs EXCEPT ![i] = r.doc], threw |-> TRUE]
            ELSE StringifyDocs([docs EXCEPT ![i] = r.doc], i + 1, keys)

\* DeversionRecord with the test if (record?.__v)
DeversionRecordTruthy(record) ==
    IF Truthy(Get(record, "__v")) THEN Delete(record, "__v") ELSE record

\* if (Number.isInteger(record?.__v)) delete record.__v
DeversionRecord(record) ==
    IF IsInteger(Get(record, "__v")) THEN Delete(record, "__v") ELSE record

\* StringifyRecordId run only when stringifyId is set
StringifyRecordIdIfAsked(record) ==
    LET id == Get(record, "_id")
    IN IF Truthy(cfg.stringifyId) /\ Truthy(id) /\ InstanceofObjectId(id)
       THEN Set(record, "_id", toString(id))
       ELSE record

\* StringifyRecordId converting with JSON.stringify(id), which quotes the string
\* of an ObjectId and quotes a string once more
StringifyRecordIdJson(record) ==
    LET id == Get(record, "_id")
    IN IF Truthy(id) /\ (InstanceofObjectId(id) \/ IsString(id))
       THEN Set(record, "_id",
                Str("\"" \o (IF InstanceofObjectId(id) THEN toString(id).s ELSE id.s) \o "\""))
       ELSE record

\* lines 45-48: if (id && id instanceof ObjectId) record._id = id.toString()
StringifyRecordId(record) ==
    LET id == Get(record, "_id")
    IN IF Truthy(id) /\ InstanceofObjectId(id)
       THEN Set(record, "_id", toString(id))
       ELSE record

\* plugins.js, stringifyId, lines 80-82: the body of its forEach
PluginStringifyIdRecord(record) ==
    IF Truthy(Get(record, "_id")) /\ InstanceofObjectId(Get(record, "_id"))
    THEN Set(record, "_id", toString(Get(record, "_id")))
    ELSE record

\* line 52: record[rename] = record._id
RenameAssign(record, rename) == Set(record, rename.s, Get(record, "_id"))

\* line 53: delete record._id
RenameDelete(record) == Delete(record, "_id")

\* the body of the second forEach: stringify _id, then move it to rename
IdentityRecord(record, rename) ==
    LET r1 == StringifyRecordId(record)
    IN IF Truthy(rename)
       THEN RenameDelete(RenameAssign(r1, rename))
       ELSE r1

\* next(): the continuation is signalled
Signal(outcome) == calls' = Append(calls, outcome)

\* Gate without the test of options.lean
GateIgnoresLean ==
    /\ pc = "start"
    /\ \/ /\ ~Truthy(result)
          /\ Signal("success")
          /\ pc' = "returned"
          /\ UNCHANGED cfg
       \/ /\ Truthy(result)
          /\ cfg' = Destructure(Get(options, "lean"))
          /\ pc' = "stringifyKeys"
          /\ UNCHANGED calls
    /\ UNCHANGED <<result, options, input, pathArg, chain>>

\* Gate with next() in place of return next(): the call runs on to line 58
GateFallsThrough ==
    /\ pc = "start"
    /\ \/ /\ ~Truthy(Get(options, "lean")) \/ ~Truthy(result)
          /\ Signal("success")
          /\ pc' = "success"
          /\ UNCHANGED cfg
       \/ /\ Truthy(Get(options, "lean")) /\ Truthy(result)
          /\ cfg' = Destructure(Get(options, "lean"))
          /\ pc' = "stringifyKeys"
          /\ UNCHANGED calls
    /\ UNCHANGED <<result, options, input, pathArg, chain>>

\* lines 9-18: read the options; leave through next() or resolve the configuration
Gate ==
    /\ pc = "start"
    /\ \/ /\ ~Truthy(Get(options, "lean")) \/ ~Truthy(result)
          /\ Signal("success")
          /\ pc' = "returned"
          /\ UNCHANGED cfg
       \/ /\ Truthy(Get(options, "lean")) /\ Truthy(result)
          /\ cfg' = Destructure(Get(options, "lean"))
          /\ pc' = "stringifyKeys"
          /\ UNCHANGED calls
    /\ UNCHANGED <<result, options, input, pathArg, chain>>

\* StringifyKeys applying the path "contributors._id" when no path is given
StringifyKeysDefaultPath ==
    /\ pc = "stringifyKeys"
    /\ IF IsArray(cfg.stringifyKeys) /\ Len(cfg.stringifyKeys.e) # 0
       THEN LET r == StringifyDocs(Docs(result), 1, cfg.stringifyKeys.e)
            IN /\ result' = WithDocs(result, r.docs)
               /\ pc' = IF r.threw THEN "catch" ELSE "deversion"
       ELSE /\ result' = WithDocs(result,
                    StringifyDocs(Docs(result), 1, <<Path(<<"contributors", Dot, "_id">>)>>).docs)
            /\ pc' = "deversion"
    /\ UNCHANGED <<options, cfg, calls, input, pathArg, chain>>

\* lines 20-31: nested stringification
StringifyKeys ==
    /\ pc = "stringifyKeys"
    /\ IF IsArray(cfg.stringifyKeys) /\ Len(cfg.stringifyKeys.e) # 0
       THEN LET r == StringifyDocs(Docs(result), 1, cfg.stringifyKeys.e)
            IN /\ result' = WithDocs(result, r.docs)
               /\ pc' = IF r.threw THEN "catch" ELSE "deversion"
       ELSE /\ pc' = "deversion"
            /\ UNCHANGED result
    /\ UNCHANGED <<options, cfg, calls, input, pathArg, chain>>

\* Deversion without the test of showVersion
DeversionAlways ==
    /\ pc = "deversion"
    /\ result' = WithDocs(result, [i \in 1..Len(Docs(result)) |-> DeversionRecord(Docs(result)[i])])
    /\ pc' = "identity"
    /\ UNCHANGED <<options, cfg, calls, input, pathArg, chain>>

\* Deversion with the two forEach loops merged: each record has its version
\* removed and its _id rewritten in one pass
DeversionThenIdentity ==
    /\ pc = "deversion"
    /\ result' = WithDocs(result, [i \in 1..Len(Docs(result)) |->
            LET r == IF ~Truthy(cfg.showVersion)
                     THEN DeversionRecord(Docs(result)[i])
                     ELSE Docs(result)[i]
            IN IF Truthy(cfg.stringifyId) \/ Truthy(cfg.rename)
               THEN IdentityRecord(r, cfg.rename)
               ELSE r])
    /\ pc' = "identity"
    /\ UNCHANGED <<options, cfg, calls, input, pathArg, chain>>

\* lines 34-41: version-field removal
Deversion ==
    /\ pc = "deversion"
    /\ IF ~Truthy(cfg.showVersion)
       THEN result' = WithDocs(result, [i \in 1..Len(Docs(result)) |-> DeversionRecord(Docs(result)[i])])
       ELSE UNCHANGED result
    /\ pc' = "identity"
    /\ UNCHANGED <<options, cfg, calls, input, pathArg, chain>>

\* Identity without the test of stringifyId and rename
IdentityAlways ==
    /\ pc = "identity"
    /\ result' = WithDocs(result, [i \in 1..Len(Docs(result)) |-> IdentityRecord(Docs(result)[i], cfg.rename)])
    /\ pc' = "success"
    /\ UNCHANGED <<options, cfg, calls, input, pathArg, chain>>

\* Identity with next() called ahead of the loop of lines 44-55
IdentityAfterSignal ==
    /\ pc = "identity"
    /\ Signal("success")
    /\ IF Truthy(cfg.stringifyId) \/ Truthy(cfg.rename)
       THEN result' = WithDocs(result, [i \in 1..Len(Docs(result)) |-> IdentityRecord(Docs(result)[i], cfg.rename)])
       ELSE UNCHANGED result
    /\ pc' = "returned"
    /\ UNCHANGED <<options, cfg, input, pathArg, chain>>

\* lines 43-56: identifier stringification and rename
Identity ==
    /\ pc = "identity"
    /\ IF Truthy(cfg.stringifyId) \/ Truthy(cfg.rename)
       THEN result' = WithDocs(result, [i \in 1..Len(Docs(result)) |-> IdentityRecord(Docs(result)[i], cfg.rename)])
       ELSE UNCHANGED result
    /\ pc' = "success"
    /\ UNCHANGED <<options, cfg, calls, input, pathArg, chain>>

\* line 58: next()
Success ==
    /\ pc = "success"
    /\ Signal("success")
    /\ pc' = "returned"
    /\ UNCHANGED <<result, options, cfg, input, pathArg, chain>>

\* Catch with next() in place of next(error)
CatchSilent ==
    /\ pc = "catch"
    /\ Signal("success")
    /\ pc' = "returned"
    /\ UNCHANGED <<result, options, cfg, input, pathArg, chain>>

\* lines 59-62: catch (error) { next(error) }
Catch ==
    /\ pc = "catch"
    /\ Signal("error")
    /\ pc' = "returned"
    /\ UNCHANGED <<result, options, cfg, input, pathArg, chain>>

(***************************************************************************)
(* The queries the hook is run on.                                         *)
(***************************************************************************)
SeqsUpTo(S, n) == UNION {[1..k -> S] : k \in 0..n}

\* an object holding the properties of f whose value is not the marker Undef
Present(f) == Obj([k \in {x \in DOMAIN f : f[x] # Undef} |-> f[k]])

\* a subdocument of the contributors array
Contributor(id) == Present("_id" :> id @@ "username" :> Str("tj"))

IdValues == {Undef, ObjectId(10), Str("0a"), Num(7, 0), Num(0, 0)}

VersionValues == {Undef, Num(0, 0), Num(1, 5)}

\* a lean Package document
Package(id, v, name, contributors) ==
    Present("_id" :> id @@ "__v" :> v @@ "name" :> Str(name) @@ "contributors" :> contributors)

Records ==
    {Package(id, v, "express", Arr(<<Contributor(ObjectId(171))>>)) : id \in IdValues, v \in VersionValues}
    \cup {Package(ObjectId(11), Num(0, 0), "react", Arr(<<>>))}

\* the records that find results are made of
ArrayRecords ==
    {Package(ObjectId(10), Num(0, 0), "express", Arr(<<Contributor(ObjectId(171))>>)),
     Package(ObjectId(10), Num(1, 5), "express", Arr(<<Contributor(ObjectId(171))>>)),
     Package(Str("0a"), Num(0, 0), "express", Arr(<<Contributor(ObjectId(171))>>)),
     Package(Undef, Undef, "express", Arr(<<Contributor(ObjectId(171))>>)),
     Package(ObjectId(11), Num(0, 0), "react", Arr(<<>>))}

\* findOne yields a record or null, find an array of records
Results == {Null} \cup Records \cup {Arr(s) : s \in SeqsUpTo(ArrayRecords, MaxDocs)}

ContributorsId == Path(<<"contributors", Dot, "_id">>)

KeysValues ==
    {Undef, Arr(<<>>), Arr(<<ContributorsId>>), Arr(<<Path(<<"_id">>)>>),
     Arr(<<ContributorsId, Num(42, 0)>>), ContributorsId}

BoolValues == {Undef, Bool(TRUE), Bool(FALSE)}

RenameValues == {Undef, Str(""), Str("uid"), Str("_id"), Str("__v")}

\* the argument of .lean(...)
LeanValues ==
    {Bool(FALSE), Bool(TRUE)} \cup
    {Present("stringifyKeys" :> k @@ "showVersion" :> sv @@ "stringifyId" :> si @@ "rename" :> rn) :
        k \in KeysValues, sv \in BoolValues, si \in BoolValues, rn \in RenameValues}

\* no options at all, options without lean, options with lean
OptionsValues == {Undef, EmptyObj} \cup {Obj("lean" :> l) : l \in LeanValues}

Init ==
    /\ result \in Results
    /\ options \in OptionsValues
    /\ cfg = NoCfg
    /\ pc = "start"
    /\ calls = <<>>
    /\ input = result
    /\ pathArg = <<>>
    /\ chain = <<"main">>

Next == Gate \/ StringifyKeys \/ Deversion \/ Identity \/ Success \/ Catch

Spec == Init /\ [][Next]_vars

(***************************************************************************)
(* Direct calls of applyStringifyAtPath(obj, path), as the unit tests make *)
(* them.                                                                   *)
(***************************************************************************)
PathContributors ==
    {Contributor(ObjectId(171)), Contributor(ObjectId(172)), Contributor(Str("ab")),
     Contributor(Undef), Contributor(Null), Contributor(Num(7, 0)), Contributor(EmptyObj),
     Contributor(Arr(<<ObjectId(171)>>)), Null,
     Arr(<<Contributor(ObjectId(171)), Contributor(ObjectId(172))>>)}

\* a record whose contributors field holds c
PathRecord(c) == Present("name" :> Str("express") @@ "_id" :> ObjectId(10) @@ "contributors" :> c)

\* the items of a root that is an array
PathItems ==
    {Null, PathRecord(Undef), PathRecord(Null), PathRecord(Arr(<<Contributor(ObjectId(171))>>)),
     Arr(<<PathRecord(Arr(<<Arr(<<Contributor(ObjectId(172))>>)>>))>>)}

PathRoots ==
    {Undef, Null, Str("express"), Present("name" :> Str("express")), PathRecord(Null)}
    \cup {PathRecord(Arr(s)) : s \in SeqsUpTo(PathContributors, MaxSub)}
    \cup {Arr(s) : s \in SeqsUpTo(PathItems, MaxSub)}

PathTokens == {"contributors", "_id", "username", Dot}

PathValues == SeqsUpTo(PathTokens, MaxPathLen)

InitPath ==
    /\ result \in PathRoots
    /\ pathArg \in PathValues
    /\ options = Undef
    /\ cfg = NoCfg
    /\ pc = "call"
    /\ calls = <<>>
    /\ input = result
    /\ chain = <<>>

\* applyStringifyAtPath(obj, path) on result and pathArg
Rewrite ==
    /\ pc = "call"
    /\ result' = applyStringifyAtPath(result, pathArg)
    /\ pc' = IF applyStringifyAtPathRaises(result, pathArg) THEN "raised" ELSE "called"
    /\ UNCHANGED <<options, cfg, calls, input, pathArg, chain>>

NextPath == Rewrite

SpecPath == InitPath /\ [][NextPath]_vars

(***************************************************************************)
(* The hook run up to the end of its nested stringification, on queries    *)
(* whose stringifyKeys lists two paths.                                    *)
(***************************************************************************)
PairRoots ==
    {Null, PathRecord(Null),
     Arr(<<PathRecord(Arr(<<Contributor(ObjectId(171))>>)), PathRecord(Null)>>)}
    \cup {PathRecord(Arr(s)) : s \in SeqsUpTo({Contributor(ObjectId(171)), Null}, MaxSub)}

PairTokens == {"contributors", "_id", Dot}

PairPaths == SeqsUpTo(PairTokens, MaxPathLen)

InitKeys ==
    /\ result \in PairRoots
    /\ \E p \in PairPaths, q \in PairPaths :
        options = Obj("lean" :> Obj("stringifyKeys" :> Arr(<<Path(p), Path(q)>>)))
    /\ cfg = NoCfg
    /\ pc = "start"
    /\ calls = <<>>
    /\ input = result
    /\ pathArg = <<>>
    /\ chain = <<"main">>

NextKeys == Gate \/ StringifyKeys

SpecKeys == InitKeys /\ [][NextKeys]_vars

(***************************************************************************)
(* plugins.js: the four modular post hooks, and the schema's chain of post *)
(* hooks.  The hooks of a schema are called in registration order, each    *)
(* with the result as the hook before it left it; each signals next once,  *)
(* and after a next(error) the hooks still to come are not called.         *)
(***************************************************************************)
\* if (!options?.lean || !result) return next()
PluginGated(r, opts) == ~Truthy(Get(opts, "lean")) \/ ~Truthy(r)

\* v.toString() of a string, an ObjectId or a one-digit number
IdToString(v) ==
    CASE v.t = "string" -> v
      [] v.t = "ObjectId" -> toString(v)
      [] v.t = "number" ->
            IF v.tenths = 0
            THEN Str(HexDigits[v.n + 1])
            ELSE Str(HexDigits[v.n + 1] \o "." \o HexDigits[v.tenths + 1])
      [] OTHER -> Str("[object Object]")

\* plugins.js 4-27
deversionHook(r, opts) ==
    IF PluginGated(r, opts) THEN [result |-> r, outcome |-> "success"]
    ELSE [result |-> WithDocs(r, [i \in 1..Len(Docs(r)) |-> DeversionRecord(Docs(r)[i])]),
          outcome |-> "success"]

\* plugins.js 29-62
stringifyKeysHook(r, opts) ==
    IF PluginGated(r, opts) THEN [result |-> r, outcome |-> "success"]
    ELSE LET given == Get(Get(opts, "lean"), "stringifyKeys")
             keys == IF given \in {Undef, Null} THEN Arr(<<>>) ELSE given
         IN IF ~IsArray(keys) \/ Len(keys.e) = 0
            THEN [result |-> r, outcome |-> "success"]
            ELSE LET d == StringifyDocs(Docs(r), 1, keys.e)
                 IN [result |-> WithDocs(r, d.docs),
                     outcome |-> IF d.threw THEN "error" ELSE "success"]

\* plugins.js 64-88
stringifyIdHook(r, opts) ==
    IF PluginGated(r, opts) THEN [result |-> r, outcome |-> "success"]
    ELSE [result |-> WithDocs(r, [i \in 1..Len(Docs(r)) |-> PluginStringifyIdRecord(Docs(r)[i])]),
          outcome |-> "success"]

\* PluginRenameRecord that leaves the record's _id in place
PluginRenameRecordCopy(record, newKeyName) ==
    IF Truthy(Get(record, "_id"))
    THEN Set(record, newKeyName.s, IdToString(Get(record, "_id")))
    ELSE record

\* plugins.js 109-112: the body of the forEach of rename
PluginRenameRecord(record, newKeyName) ==
    IF Truthy(Get(record, "_id"))
    THEN Delete(Set(record, newKeyName.s, IdToString(Get(record, "_id"))), "_id")
    ELSE record

\* plugins.js 90-117
renameHook(r, opts) ==
    IF PluginGated(r, opts) THEN [result |-> r, outcome |-> "success"]
    ELSE LET newKeyName == Get(Get(opts, "lean"), "rename")
         IN IF ~Truthy(newKeyName)
            THEN [result |-> r, outcome |-> "success"]
            ELSE [result |-> WithDocs(r, [i \in 1..Len(Docs(r)) |->
                                PluginRenameRecord(Docs(r)[i], newKeyName)]),
                  outcome |-> "success"]

\* the post hook of that name, run on r
Hook(name, r, opts) ==
    CASE name = "deversion" -> deversionHook(r, opts)
      [] name = "stringifyKeys" -> stringifyKeysHook(r, opts)
      [] name = "stringifyId" -> stringifyIdHook(r, opts)
      [] name = "rename" -> renameHook(r, opts)

RECURSIVE RunHooks(_, _, _, _)
\* the chain hooks run on r from its i-th hook on: the result it leaves and the
\* outcome of the last hook called
RunHooks(hooks, i, r, opts) ==
    IF i > Len(hooks) THEN [result |-> r, outcome |-> "success"]
    ELSE LET o == Hook(hooks[i], r, opts)
         IN IF o.outcome = "error" THEN o ELSE RunHooks(hooks, i + 1, o.result, opts)

\* no hook is running and the last one, if any, signalled success
Idle == (pc = "post" /\ calls = <<>>) \/ (pc = "returned" /\ calls[Len(calls)] = "success")

\* the chain calls its next hook, which is deversion of plugins.js (lines 4-27)
PluginDeversion ==
    /\ Idle
    /\ Len(calls) < Len(chain)
    /\ chain[Len(calls) + 1] = "deversion"
    /\ result' = deversionHook(result, options).result
    /\ Signal(deversionHook(result, options).outcome)
    /\ pc' = "returned"
    /\ UNCHANGED <<options, cfg, input, pathArg, chain>>

\* the chain calls its next hook, which is stringifyKeys of plugins.js (lines 29-62)
PluginStringifyKeys ==
    /\ Idle
    /\ Len(calls) < Len(chain)
    /\ chain[Len(calls) + 1] = "stringifyKeys"
    /\ result' = stringifyKeysHook(result, options).result
    /\ Signal(stringifyKeysHook(result, options).outcome)
    /\ pc' = "returned"
    /\ UNCHANGED <<options, cfg, input, pathArg, chain>>

\* the chain calls its next hook, which is stringifyId of plugins.js (lines 64-88)
PluginStringifyId ==
    /\ Idle
    /\ Len(calls) < Len(chain)
    /\ chain[Len(calls) + 1] = "stringifyId"
    /\ result' = stringifyIdHook(result, options).result
    /\ Signal(stringifyIdHook(result, options).outcome)
    /\ pc' = "returned"
    /\ UNCHANGED <<options, cfg, input, pathArg, chain>>

\* the chain calls its next hook, which is rename of plugins.js (lines 90-117)
PluginRename ==
    /\ Idle
    /\ Len(calls) < Len(chain)
    /\ chain[Len(calls) + 1] = "rename"
    /\ result' = renameHook(result, options).result
    /\ Signal(renameHook(result, options).outcome)
    /\ pc' = "returned"
    /\ UNCHANGED <<options, cfg, input, pathArg, chain>>

\* the chain calls its next hook, which is the all-in-one hook of index.js
CallMain ==
    /\ Idle
    /\ Len(calls) < Len(chain)
    /\ chain[Len(calls) + 1] = "main"
    /\ pc' = "start"
    /\ cfg' = NoCfg
    /\ UNCHANGED <<result, options, calls, input, pathArg, chain>>

PluginNames == {"deversion", "stringifyKeys", "stringifyId", "rename"}

\* the four plugins in every registration order, and each plugin alone
Chains ==
    {c \in [1..4 -> PluginNames] : \A i, j \in 1..4 : c[i] = c[j] => i = j}
    \cup {<<n>> : n \in PluginNames}

\* the lean argument of a query on a schema that carries the modular plugins
PluginLeanValues ==
    {Bool(FALSE), Bool(TRUE)} \cup
    {Present("stringifyKeys" :> k @@ "rename" :> rn) : k \in KeysValues, rn \in RenameValues}

InitPlugins ==
    /\ result \in Results
    /\ options \in {Undef} \cup {Obj("lean" :> l) : l \in PluginLeanValues}
    /\ cfg = NoCfg
    /\ pc = "post"
    /\ calls = <<>>
    /\ input = result
    /\ pathArg = <<>>
    /\ chain \in Chains

NextPlugins == PluginDeversion \/ PluginStringifyKeys \/ PluginStringifyId \/ PluginRename

SpecPlugins == InitPlugins /\ [][NextPlugins]_vars

(***************************************************************************)
(* The all-in-one hook registered twice on one schema: the second run is   *)
(* handed the result the first run left, with the same options.            *)
(***************************************************************************)
InitTwice ==
    /\ result \in Results
    /\ options \in OptionsValues
    /\ cfg = NoCfg
    /\ pc = "post"
    /\ calls = <<>>
    /\ input = result
    /\ pathArg = <<>>
    /\ chain = <<"main", "main">>

NextTwice == CallMain \/ Gate \/ StringifyKeys \/ Deversion \/ Identity \/ Success \/ Catch

SpecTwice == InitTwice /\ [][NextTwice]_vars

(***************************************************************************)
(* Properties.                                                             *)
(***************************************************************************)
\* the argument of .lean(...), undefined when lean was never called
Lean == Get(options, "lean")

\* the call leaves through the gate of line 11
Gated == ~Truthy(Lean) \/ ~Truthy(input)

InDocs == Docs(input)

OutDocs == Docs(result)

\* the hexadecimal strings of the identifiers of the model, written out by hand
HexString == (10 :> "0a" @@ 11 :> "0b" @@ 171 :> "ab" @@ 172 :> "ac")

HadObjectId(record) == Get(record, "_id").t = "ObjectId"

\* the string form of the _id the record came in with
IdString(record) == Str(HexString[Get(record, "_id").id])

\* C1: when the query carries no options, lean is absent or false, or the
\* result is null, the hook signals success once and the result graph is
\* identical to its input, whatever the other options are.
C1_GateNoOp ==
    Gated => /\ result = input
             /\ pc \in {"start", "returned"}
             /\ pc = "returned" => calls = <<"success">>

C1_Witness ==
    /\ pc = "returned"
    /\ Lean = Bool(FALSE)
    /\ IsArray(input) /\ Len(input.e) = 2
    /\ HadObjectId(input.e[1]) /\ IsInteger(Get(input.e[1], "__v"))

C3_Defaults ==
    ((Lean = Bool(TRUE) \/ Lean = EmptyObj) /\ Truthy(input)) =>
        /\ pc # "start" =>
            cfg = [stringifyKeys |-> Arr(<<>>), showVersion |-> Bool(FALSE),
                   stringifyId |-> Bool(TRUE), rename |-> Undef]
        /\ pc = "returned" =>
            /\ calls = <<"success">>
            /\ \A i \in 1..Len(InDocs) :
                (HadObjectId(InDocs[i]) /\ IsInteger(Get(InDocs[i], "__v"))) =>
                    /\ Get(OutDocs[i], "_id") = IdString(InDocs[i])
                    /\ ~Has(OutDocs[i], "__v")

C3_Witness ==
    /\ pc = "returned"
    /\ Lean = Bool(TRUE)
    /\ IsArray(input) /\ Len(input.e) = 2
    /\ \A i \in 1..2 : HadObjectId(input.e[i]) /\ IsInteger(Get(input.e[i], "__v"))
    /\ Get(input.e[1], "_id") # Get(input.e[2], "_id")

\* C4: in every state of a call, for every options value, a single record is
\* still that single record (an object, never an array) and an array is an
\* array of the same length holding the same records in the same order (each
\* record keeps its name, which no option of the model rewrites).
C4_ShapePreserved ==
    /\ IsArray(result) = IsArray(input)
    /\ (result = Null) = (input = Null)
    /\ Len(OutDocs) = Len(InDocs)
    /\ input # Null =>
        \A i \in 1..Len(InDocs) :
            /\ OutDocs[i].t = "object"
            /\ Get(OutDocs[i], "name") = Get(InDocs[i], "name")

C4_Witness ==
    /\ pc = "returned"
    /\ calls = <<"success">>
    /\ input.t = "object"
    /\ result.t = "object" /\ result # input
    /\ Get(Lean, "rename") = Str("uid")

\* C5: the version-removal step with showVersion false deletes __v from a
\* record exactly when __v is present and an integer, leaves every other
\* record as it was, and signals no error.
C5_VersionRemoval ==
    [][(pc = "deversion" /\ ~Truthy(cfg.showVersion)) =>
        /\ pc' = "identity"
        /\ calls' = calls
        /\ Len(Docs(result')) = Len(Docs(result))
        /\ \A i \in 1..Len(Docs(result)) :
            LET a == Docs(result)[i]
                b == Docs(result')[i]
            IN IF Has(a, "__v") /\ a.f["__v"].t = "number" /\ a.f["__v"].tenths = 0
               THEN b = Obj([k \in (DOMAIN a.f) \ {"__v"} |-> a.f[k]])
               ELSE b = a]_vars

C5_Witness ==
    /\ pc = "identity"
    /\ ~Truthy(cfg.showVersion)
    /\ Len(InDocs) = 2
    /\ Get(InDocs[1], "__v") = Num(0, 0) /\ ~Has(OutDocs[1], "__v")
    /\ Get(InDocs[2], "__v") = Num(1, 5) /\ Get(OutDocs[2], "__v") = Num(1, 5)

\* the __v field of every record is as it came in
VersionKept ==
    \A i \in 1..Len(InDocs) :
        /\ Has(OutDocs[i], "__v") = Has(InDocs[i], "__v")
        /\ Get(OutDocs[i], "__v") = Get(InDocs[i], "__v")

ObjectIdKept ==
    \A i \in 1..Len(InDocs) :
        HadObjectId(InDocs[i]) => Get(OutDocs[i], "_id") = Get(InDocs[i], "_id")

\* stringifyKeys lists the path "_id", which addresses the top-level _id
NamesTopLevelId(keys) ==
    IsArray(keys) /\ \E j \in 1..Len(keys.e) : keys.e[j] = Path(<<"_id">>)

RenameStringifying ==
    /\ IsString(Get(Lean, "rename")) /\ Truthy(Get(Lean, "rename"))
    /\ Get(Lean, "stringifyId") \in {Undef, Bool(TRUE)}

\* C8: for any non-empty rename R and stringifyId true or omitted, when the
\* call succeeds every record that had an ObjectId _id has a field R holding
\* the identifier's string form and no ObjectId under the name _id.
C8_RenameStringified ==
    (pc = "returned" /\ calls = <<"success">> /\ ~Gated /\ RenameStringifying) =>
        \A i \in 1..Len(InDocs) :
            HadObjectId(InDocs[i]) =>
                /\ Has(OutDocs[i], Get(Lean, "rename").s)
                /\ Get(OutDocs[i], Get(Lean, "rename").s) = IdString(InDocs[i])
                /\ ~InstanceofObjectId(Get(OutDocs[i], "_id"))

\* what C8 says holds of every rename other than "_id"
RenameStringifiedOtherName ==
    (/\ pc = "returned" /\ calls = <<"success">> /\ ~Gated /\ RenameStringifying
     /\ Get(Lean, "rename") # Str("_id")) =>
        \A i \in 1..Len(InDocs) :
            HadObjectId(InDocs[i]) =>
                /\ Get(OutDocs[i], Get(Lean, "rename").s) = IdString(InDocs[i])
                /\ ~Has(OutDocs[i], "_id")

FanOutRecord(r) ==
    /\ r.t = "object" /\ Has(r, "contributors")
    /\ IsArray(r.f["contributors"])
    /\ \A i \in 1..Len(r.f["contributors"].e) :
        HadObjectId(r.f["contributors"].e[i])

\* C10: on a record whose contributors array holds N subdocuments with an
\* ObjectId _id (N = 0, 1 or more), applyStringifyAtPath with the path
\* "contributors._id" replaces exactly those N values by their hexadecimal
\* strings and leaves every other field of the record and of the
\* subdocuments as it was.
C10_FanOut ==
    (pc = "called" /\ pathArg = <<"contributors", Dot, "_id">> /\ FanOutRecord(input)) =>
        /\ result.t = "object"
        /\ DOMAIN result.f = DOMAIN input.f
        /\ \A k \in (DOMAIN input.f) \ {"contributors"} : result.f[k] = input.f[k]
        /\ IsArray(result.f["contributors"])
        /\ Len(result.f["contributors"].e) = Len(input.f["contributors"].e)
        /\ \A i \in 1..Len(input.f["contributors"].e) :
            LET a == input.f["contributors"].e[i]
                b == result.f["contributors"].e[i]
            IN /\ b.t = "object"
               /\ DOMAIN b.f = DOMAIN a.f
               /\ b.f["_id"] = IdString(a)
               /\ \A k \in (DOMAIN a.f) \ {"_id"} : b.f[k] = a.f[k]

C10_Witness ==
    /\ pc = "called"
    /\ pathArg = <<"contributors", Dot, "_id">>
    /\ FanOutRecord(input)
    /\ Len(input.f["contributors"].e) = 2
    /\ input.f["contributors"].e[1] # input.f["contributors"].e[2]
    /\ result.f["contributors"].e[2].f["_id"] = Str("ab")

\* C11: applyStringifyAtPath returns normally for every root (undefined,
\* null, a string, a record with or without the fields of the path, a record
\* with null branches, an array) and every path string; a null or
\* undefined root is left as it was.
C11_NeverRaises ==
    /\ pc # "raised"
    /\ (pc = "called" /\ input \in {Null, Undef}) => result = input

C11_Witness ==
    /\ pc = "called"
    /\ pathArg = <<"contributors", Dot, "_id">>
    /\ \/ input = Null
       \/ input = PathRecord(Arr(<<Null, Contributor(Null)>>))
    /\ result = input

\* a is a record whose contributors field is an array
HasContributors(a) == a.t = "object" /\ IsArray(Get(a, "contributors"))

\* b is the record a after the path "contributors._id": every subdocument of
\* a.contributors that held an ObjectId _id holds its string, and every null
\* item is still null
BranchesConverted(a, b) ==
    /\ HasContributors(b)
    /\ Len(b.f["contributors"].e) = Len(a.f["contributors"].e)
    /\ \A j \in 1..Len(a.f["contributors"].e) :
        LET x == a.f["contributors"].e[j]
            y == b.f["contributors"].e[j]
        IN /\ HadObjectId(x) => Get(y, "_id") = IdString(x)
           /\ ~Truthy(x) => y = x

\* C12: under the path "contributors._id" an item of an array that is null,
\* or whose contributors field is null or missing, is left as it was, and
\* the ObjectId _id values reached through every other item of the same
\* array are converted all the same (the array being the root or the
\* contributors field).
C12_BranchIndependence ==
    (pc = "called" /\ pathArg = <<"contributors", Dot, "_id">>) =>
        /\ HasContributors(input) => BranchesConverted(input, result)
        /\ IsArray(input) =>
            /\ IsArray(result)
            /\ Len(result.e) = Len(input.e)
            /\ \A i \in 1..Len(input.e) :
                /\ HasContributors(input.e[i]) => BranchesConverted(input.e[i], result.e[i])
                /\ \/ ~Truthy(input.e[i])
                   \/ input.e[i].t = "object" /\ ~Truthy(Get(input.e[i], "contributors"))
                   => result.e[i] = input.e[i]

C12_Witness ==
    /\ pc = "called"
    /\ pathArg = <<"contributors", Dot, "_id">>
    /\ IsArray(input)
    /\ Len(input.e) = 2
    /\ input.e[1] \in {Null, PathRecord(Null), PathRecord(Undef)}
    /\ HasContributors(input.e[2])
    /\ result.e[1] = input.e[1]
    /\ result.e[2] = PathRecord(Arr(<<Contributor(Str("ab"))>>))

\* the call has run lines 43-56 with stringifyId on and no rename
IdStringified ==
    /\ ~Gated
    /\ Truthy(cfg.stringifyId) /\ ~Truthy(cfg.rename)
    /\ pc = "success" \/ (pc = "returned" /\ calls = <<"success">>)

\* C13: with stringifyId on and no rename, running the _id stringification
\* (the loop body of index.js 44-55, or of the stringifyId plugin) once more
\* on the records it has produced changes nothing, and an _id that was a
\* string before the call is the same string after it.
C13_IdStringificationIdempotent ==
    IdStringified =>
        \A i \in 1..Len(InDocs) :
            /\ IdentityRecord(OutDocs[i], cfg.rename) = OutDocs[i]
            /\ PluginStringifyIdRecord(OutDocs[i]) = OutDocs[i]
            /\ PluginStringifyIdRecord(PluginStringifyIdRecord(InDocs[i]))
                    = PluginStringifyIdRecord(InDocs[i])
            /\ IsString(Get(InDocs[i], "_id")) => Get(OutDocs[i], "_id") = Get(InDocs[i], "_id")

C13_Witness ==
    /\ IdStringified
    /\ pc = "returned"
    /\ Len(InDocs) = 2
    /\ HadObjectId(InDocs[1])
    /\ IsString(Get(InDocs[2], "_id"))
    /\ Get(OutDocs[1], "_id") = Str("0a")
    /\ Get(OutDocs[2], "_id") = Get(InDocs[2], "_id")

\* stringifyKeys was given and is not an array of strings
MalformedKeys ==
    /\ cfg.stringifyKeys # Undef
    /\ \/ ~IsArray(cfg.stringifyKeys)
       \/ \E j \in 1..Len(cfg.stringifyKeys.e) : ~IsString(cfg.stringifyKeys.e[j])

\* the rewrites of lines 34-56 have been applied to every record
OtherRewritesApplied ==
    \A i \in 1..Len(OutDocs) :
        /\ ~Truthy(cfg.showVersion) => ~IsInteger(Get(OutDocs[i], "__v"))
        /\ (Truthy(cfg.stringifyId) /\ ~Truthy(cfg.rename)) =>
                ~InstanceofObjectId(Get(OutDocs[i], "_id"))

\* C14: a call whose stringifyKeys is not an array of path strings (a
\* non-array value, or an array holding a non-string entry) ends with
\* next() and never with next(error), with the version removal and the _id
\* stringification applied, and with no nested rewriting when stringifyKeys
\* is not an array.
C14_MalformedKeysSucceed ==
    (~Gated /\ pc = "returned" /\ MalformedKeys) =>
        /\ calls = <<"success">>
        /\ OtherRewritesApplied
        /\ ~IsArray(cfg.stringifyKeys) =>
            \A i \in 1..Len(InDocs) :
                Get(OutDocs[i], "contributors") = Get(InDocs[i], "contributors")

\* the part of C14 that holds: a stringifyKeys that is not an array is skipped
MalformedNonArraySucceeds ==
    (~Gated /\ pc = "returned" /\ MalformedKeys /\ ~IsArray(cfg.stringifyKeys)) =>
        /\ calls = <<"success">>
        /\ OtherRewritesApplied
        /\ \A i \in 1..Len(InDocs) :
            Get(OutDocs[i], "contributors") = Get(InDocs[i], "contributors")

\* the call raises inside the try block: it is not gated, stringifyKeys is an
\* array holding an entry that is not a string, and there is a record to
\* apply it to
Raises ==
    /\ ~Gated
    /\ IsArray(Get(Lean, "stringifyKeys"))
    /\ \E j \in 1..Len(Get(Lean, "stringifyKeys").e) : ~IsString(Get(Lean, "stringifyKeys").e[j])
    /\ Len(InDocs) > 0

\* C15: an exception raised inside the try block (lines 20-56) is caught:
\* the call goes from the raising step to the catch block and ends with the
\* single signal next(error); next() is not signalled for that call, the
\* later steps are not run, and the catch block is entered by no other call.
C15_ExceptionCaught ==
    /\ Raises => pc \in {"start", "stringifyKeys", "catch", "returned"}
    /\ (Raises /\ pc = "returned") => calls = <<"error">>
    /\ (Raises /\ pc # "returned") => calls = <<>>
    /\ (pc = "catch" \/ calls = <<"error">>) => Raises

C15_Witness ==
    /\ Raises
    /\ pc = "returned"
    /\ calls = <<"error">>
    /\ Len(InDocs) = 2
    /\ OutDocs[1] # InDocs[1]
    /\ OutDocs[2] = InDocs[2]

\* the nested stringification is over: when stringifyKeys lists
\* "contributors._id", no subdocument of any record holds an ObjectId _id
NestedDone ==
    (IsArray(cfg.stringifyKeys)
        /\ \E j \in 1..Len(cfg.stringifyKeys.e) : cfg.stringifyKeys.e[j] = ContributorsId) =>
        \A i \in 1..Len(OutDocs) :
            \A j \in 1..Len(Get(OutDocs[i], "contributors").e) :
                ~InstanceofObjectId(Get(Get(OutDocs[i], "contributors").e[j], "_id"))

\* the version removal is over: no record holds an integer __v unless
\* showVersion is set
VersionsDone ==
    ~Truthy(cfg.showVersion) => \A i \in 1..Len(OutDocs) : ~IsInteger(Get(OutDocs[i], "__v"))

\* the version removal stays done after the loop of lines 44-55: an integer
\* __v is then only an integer _id that rename = "__v" has moved there
VersionsStayDone ==
    ~Truthy(cfg.showVersion) =>
        \A i \in 1..Len(OutDocs) :
            IsInteger(Get(OutDocs[i], "__v")) =>
                (cfg.rename = Str("__v") /\ Get(OutDocs[i], "__v") = Get(InDocs[i], "_id"))

\* the loop of lines 44-55 has not run yet: every record has the _id field it
\* came in with (converted in place when stringifyKeys lists "_id") and no
\* field has been added under the name rename
IdPending ==
    \A i \in 1..Len(InDocs) :
        /\ Has(OutDocs[i], "_id") = Has(InDocs[i], "_id")
        /\ ~NamesTopLevelId(cfg.stringifyKeys) => Get(OutDocs[i], "_id") = Get(InDocs[i], "_id")
        /\ (Truthy(cfg.rename) /\ ~Has(InDocs[i], cfg.rename.s)) => ~Has(OutDocs[i], cfg.rename.s)

\* the loop of lines 44-55 is over, when stringifyId or rename asks for it
IdDone ==
    (Truthy(cfg.stringifyId) \/ Truthy(cfg.rename)) =>
        \A i \in 1..Len(OutDocs) :
            /\ ~InstanceofObjectId(Get(OutDocs[i], "_id"))
            /\ Truthy(cfg.rename) => ~Has(OutDocs[i], "_id")

\* C16: in a call that is not gated the steps run in the order nested
\* stringification, version removal, _id stringification and rename,
\* next(): before line 20 nothing is changed; when the version removal
\* starts every path has been applied to every record and no __v or _id has
\* been touched; when the _id loop starts every version has been removed and
\* no _id has been rewritten; next() is called after all three.
C16_StepOrder ==
    ~Gated =>
        /\ pc = "stringifyKeys" => (result = input /\ calls = <<>>)
        /\ pc = "deversion" => (NestedDone /\ VersionKept /\ IdPending /\ calls = <<>>)
        /\ pc = "identity" => (NestedDone /\ VersionsDone /\ IdPending /\ calls = <<>>)
        /\ pc = "success" => (NestedDone /\ VersionsStayDone /\ IdDone /\ calls = <<>>)
        /\ (pc = "returned" /\ calls = <<"success">>) => (NestedDone /\ VersionsStayDone /\ IdDone)

C16_Witness ==
    /\ ~Gated
    /\ pc = "identity"
    /\ cfg.stringifyKeys = Arr(<<ContributorsId>>)
    /\ ~Truthy(cfg.showVersion)
    /\ Truthy(cfg.stringifyId)
    /\ Len(InDocs) = 2
    /\ IsInteger(Get(InDocs[1], "__v")) /\ ~Has(OutDocs[1], "__v")
    /\ HadObjectId(InDocs[1]) /\ HadObjectId(OutDocs[1])
    /\ Get(OutDocs[1], "contributors") = Arr(<<Contributor(Str("ab"))>>)

\* C17: once next() or next(error) has been called the result is never
\* changed again and nothing more is signalled; the step that signals
\* changes no record and is the last step of the call, so every mutation of
\* lines 20-56 comes strictly before the signal.
C17_NoMutationAfterSignal ==
    [][/\ calls # <<>> => (result' = result /\ calls' = calls)
       /\ calls' # calls => (result' = result /\ pc' = "returned")]_vars

C17_Witness ==
    /\ ~Gated
    /\ pc = "returned"
    /\ calls = <<"success">>
    /\ ~IsArray(input)
    /\ IsInteger(Get(input, "__v")) /\ ~Has(result, "__v")
    /\ HadObjectId(input) /\ Get(result, "_id") = Str("0a")

\* C18: the nested stringification of a query whose stringifyKeys is [p, q]
\* leaves every record as applying q and then p to it does, and as applying
\* p and then q does: the order of the two paths makes no difference.
C18_PathIndependence ==
    (pc = "deversion" /\ Len(cfg.stringifyKeys.e) = 2) =>
        LET p == cfg.stringifyKeys.e[1].path
            q == cfg.stringifyKeys.e[2].path
        IN \A i \in 1..Len(InDocs) :
            /\ OutDocs[i] = applyStringifyAtPath(applyStringifyAtPath(InDocs[i], q), p)
            /\ OutDocs[i] = applyStringifyAtPath(applyStringifyAtPath(InDocs[i], p), q)

C18_Witness ==
    /\ pc = "deversion"
    /\ cfg.stringifyKeys = Arr(<<Path(<<"_id">>), ContributorsId>>)
    /\ input = PathRecord(Arr(<<Contributor(ObjectId(171)), Null>>))
    /\ Get(result, "_id") = Str("0a")
    /\ Get(result, "contributors") = Arr(<<Contributor(Str("ab")), Null>>)

RECURSIVE TerminalsConverted(_, _, _)
\* b stands in the result where a stood in the input, segments being the
\* property names still to follow from a: every ObjectId found by following
\* them from a, each array on the way standing for all its items, is its
\* hexadecimal string in b
TerminalsConverted(a, b, segments) ==
    IF IsArray(a)
    THEN /\ IsArray(b)
         /\ Len(b.e) = Len(a.e)
         /\ \A i \in 1..Len(a.e) : TerminalsConverted(a.e[i], b.e[i], segments)
    ELSE IF Has(a, segments[1])
    THEN /\ Has(b, segments[1])
         /\ IF Len(segments) = 1
            THEN InstanceofObjectId(a.f[segments[1]]) =>
                    b.f[segments[1]] = Str(HexString[a.f[segments[1]].id])
            ELSE TerminalsConverted(a.f[segments[1]], b.f[segments[1]], Tail(segments))
    ELSE TRUE

\* C19: an array met at any depth (the root, the contributors field, an
\* array that is an item of another array) uses up no segment: the paths
\* "_id" and "contributors._id" convert the ObjectId of every record and
\* subdocument reached through any number of arrays.
C19_FanOutKeepsSegments ==
    /\ (pc = "called" /\ pathArg = <<"_id">>) =>
            TerminalsConverted(input, result, <<"_id">>)
    /\ (pc = "called" /\ pathArg = <<"contributors", Dot, "_id">>) =>
            TerminalsConverted(input, result, <<"contributors", "_id">>)

C19_Witness ==
    /\ pc = "called"
    /\ pathArg = <<"contributors", Dot, "_id">>
    /\ input = Arr(<<Arr(<<PathRecord(Arr(<<Arr(<<Contributor(ObjectId(172))>>)>>))>>),
                     PathRecord(Arr(<<Contributor(ObjectId(171))>>))>>)
    /\ result = Arr(<<Arr(<<PathRecord(Arr(<<Arr(<<Contributor(Str("ac"))>>)>>))>>),
                      PathRecord(Arr(<<Contributor(Str("ab"))>>))>>)

\* the object a with the ObjectId under key, if it holds one there, replaced
\* by its hexadecimal string, and a itself otherwise
TerminalRewritten(a, key) ==
    IF Has(a, key) /\ InstanceofObjectId(a.f[key])
    THEN [a EXCEPT !.f = [@ EXCEPT ![key] = Str(HexString[a.f[key].id])]]
    ELSE a

\* C20: at the last segment the field is replaced by its hexadecimal string
\* when it holds an ObjectId and the object is left exactly as it was when
\* the field is missing, null, a string, a number, a plain object or an
\* array; applying the same path a second time changes nothing.
C20_TerminalRewrite ==
    pc = "called" =>
        /\ applyStringifyAtPath(result, pathArg) = result
        /\ (input.t = "object" /\ pathArg \in {<<"_id">>, <<"username">>, <<"contributors">>}) =>
                result = TerminalRewritten(input, pathArg[1])
        /\ (HasContributors(input) /\ pathArg \in {<<"contributors", Dot, "_id">>,
                                                    <<"contributors", Dot, "username">>}) =>
                \A j \in 1..Len(input.f["contributors"].e) :
                    input.f["contributors"].e[j].t = "object" =>
                        result.f["contributors"].e[j]
                            = TerminalRewritten(input.f["contributors"].e[j], pathArg[3])

C20_Witness ==
    /\ pc = "called"
    /\ pathArg = <<"contributors", Dot, "_id">>
    /\ input = PathRecord(Arr(<<Contributor(ObjectId(171)), Contributor(Str("ab"))>>))
    /\ result = PathRecord(Arr(<<Contributor(Str("ab")), Contributor(Str("ab"))>>))

\* the record came in with an _id that is a string or a number
HadPlainId(record) == Has(record, "_id") /\ Get(record, "_id").t \in {"string", "number"}

\* C21: when the call succeeds, a record whose _id was a string or a number
\* keeps that value unconverted: with stringifyId on and no rename it is
\* still under _id, and with rename R it is under R and the record has no
\* _id field.
C21_PlainIdNotConverted ==
    (pc = "returned" /\ calls = <<"success">> /\ ~Gated) =>
        \A i \in 1..Len(InDocs) :
            HadPlainId(InDocs[i]) =>
                /\ (Truthy(cfg.stringifyId) /\ ~Truthy(cfg.rename)) =>
                        (Has(OutDocs[i], "_id") /\ Get(OutDocs[i], "_id") = Get(InDocs[i], "_id"))
                /\ Truthy(cfg.rename) =>
                        /\ Has(OutDocs[i], cfg.rename.s)
                        /\ Get(OutDocs[i], cfg.rename.s) = Get(InDocs[i], "_id")
                        /\ ~Has(OutDocs[i], "_id")

\* what C21 says holds of every rename other than "_id"
PlainIdNotConvertedOtherName ==
    (pc = "returned" /\ calls = <<"success">> /\ ~Gated /\ cfg.rename # Str("_id")) =>
        \A i \in 1..Len(InDocs) :
            HadPlainId(InDocs[i]) =>
                /\ (Truthy(cfg.stringifyId) /\ ~Truthy(cfg.rename)) =>
                        (Has(OutDocs[i], "_id") /\ Get(OutDocs[i], "_id") = Get(InDocs[i], "_id"))
                /\ Truthy(cfg.rename) =>
                        /\ Has(OutDocs[i], cfg.rename.s)
                        /\ Get(OutDocs[i], cfg.rename.s) = Get(InDocs[i], "_id")
                        /\ ~Has(OutDocs[i], "_id")

\* the order in which the README registers the four plugins
ReadmeOrder == <<"stringifyKeys", "stringifyId", "deversion", "rename">>

\* a chain of all four plugins has run to its end: every hook was called, or
\* one signalled next(error)
ChainOver ==
    /\ Len(chain) = 4
    /\ pc = "returned"
    /\ Len(calls) = 4 \/ calls[Len(calls)] = "error"

\* C22: with the four plugins of plugins.js registered on one schema, in
\* whatever order, the records the chain leaves are those the order of the
\* README leaves, for every lean argument and every result.
C22_OrderIndependent ==
    ChainOver => result = RunHooks(ReadmeOrder, 1, input, options).result

\* what C22 says holds of every query in which no hook signals next(error)
OrderIndependentWithoutError ==
    (ChainOver /\ calls[Len(calls)] = "success") =>
        result = RunHooks(ReadmeOrder, 1, input, options).result

\* the rename plugin is the only hook of the schema and has returned
RenameAlone == chain = <<"rename">> /\ pc = "returned"

\* the query is lean, found something and names a non-empty rename
RenameAsked == ~PluginGated(input, options) /\ Truthy(Get(Lean, "rename"))

\* C23: the rename plugin of plugins.js signals success; in a lean query
\* with rename R every record that has an _id field ends with R holding the
\* _id's string form and with no _id field; without a rename, without lean
\* or on a null result nothing is changed.
C23_PluginRename ==
    RenameAlone =>
        /\ calls = <<"success">>
        /\ ~RenameAsked => result = input
        /\ RenameAsked =>
            \A i \in 1..Len(InDocs) :
                Has(InDocs[i], "_id") =>
                    /\ Has(OutDocs[i], Get(Lean, "rename").s)
                    /\ Get(OutDocs[i], Get(Lean, "rename").s) = IdToString(Get(InDocs[i], "_id"))
                    /\ ~Has(OutDocs[i], "_id")

\* what C23 says holds of every rename other than "_id" and of every record
\* whose _id is truthy
PluginRenameOtherName ==
    RenameAlone =>
        /\ calls = <<"success">>
        /\ ~RenameAsked => result = input
        /\ (RenameAsked /\ Get(Lean, "rename") # Str("_id")) =>
            \A i \in 1..Len(InDocs) :
                Truthy(Get(InDocs[i], "_id")) =>
                    /\ Get(OutDocs[i], Get(Lean, "rename").s) = IdToString(Get(InDocs[i], "_id"))
                    /\ ~Has(OutDocs[i], "_id")

\* the top-level names the hook may write under: _id, __v and the rename
FrameNames ==
    {"_id", "__v"} \cup
    (IF Truthy(Get(Lean, "rename")) THEN {Get(Lean, "rename").s} ELSE {})

\* stringifyKeys lists the path "contributors._id"
NamesContributorsId ==
    /\ IsArray(Get(Lean, "stringifyKeys"))
    /\ \E j \in 1..Len(Get(Lean, "stringifyKeys").e) :
        Get(Lean, "stringifyKeys").e[j] = ContributorsId

\* the subdocument b is the subdocument a, but for an ObjectId _id that may
\* have become its string
SubdocumentKept(a, b) ==
    /\ b.t = "object"
    /\ DOMAIN b.f = DOMAIN a.f
    /\ \A k \in (DOMAIN a.f) \ {"_id"} : b.f[k] = a.f[k]
    /\ Has(a, "_id") =>
        \/ b.f["_id"] = a.f["_id"]
        \/ InstanceofObjectId(a.f["_id"]) /\ b.f["_id"] = IdString(a)

\* C24: in every state of a call, whatever the options, a record differs
\* from what it was at most in its top-level _id, its top-level __v, the
\* top-level field named by rename, and the ObjectId values at the paths of
\* stringifyKeys; every other field is present or absent as before with
\* the same value, and no nested value changes unless stringifyKeys lists
\* its path.
C24_Frame ==
    /\ ~Truthy(input) => result = input
    /\ Len(OutDocs) = Len(InDocs)
    /\ \A i \in {x \in 1..Len(InDocs) : InDocs[x].t = "object"} :
        \A k \in ((DOMAIN InDocs[i].f) \cup (DOMAIN OutDocs[i].f)) \ FrameNames :
            /\ Has(OutDocs[i], k) = Has(InDocs[i], k)
            /\ IF k = "contributors" /\ NamesContributorsId
               THEN /\ IsArray(Get(OutDocs[i], k))
                    /\ Len(Get(OutDocs[i], k).e) = Len(Get(InDocs[i], k).e)
                    /\ \A j \in 1..Len(Get(InDocs[i], k).e) :
                        SubdocumentKept(Get(InDocs[i], k).e[j], Get(OutDocs[i], k).e[j])
               ELSE Get(OutDocs[i], k) = Get(InDocs[i], k)

C24_Witness ==
    /\ pc = "returned"
    /\ calls = <<"success">>
    /\ Get(Lean, "stringifyKeys") = Arr(<<ContributorsId>>)
    /\ Get(Lean, "rename") = Str("uid")
    /\ Len(InDocs) = 2
    /\ IsInteger(Get(InDocs[1], "__v")) /\ ~Has(OutDocs[1], "__v")
    /\ Get(OutDocs[1], "uid") = Str("0a")
    /\ Get(OutDocs[1], "contributors") = Arr(<<Contributor(Str("ab"))>>)
    /\ Get(OutDocs[1], "name") = Get(InDocs[1], "name")

RECURSIVE SameShape(_, _)
\* b has the structure of a: the same field names in every object, the same
\* length in every array, item by item, and the same value everywhere but
\* where an ObjectId stood, which may have become a string
SameShape(a, b) ==
    CASE a.t = "array" ->
            /\ b.t = "array"
            /\ Len(b.e) = Len(a.e)
            /\ \A i \in 1..Len(a.e) : SameShape(a.e[i], b.e[i])
      [] a.t = "object" ->
            /\ b.t = "object"
            /\ DOMAIN b.f = DOMAIN a.f
            /\ \A k \in DOMAIN a.f : SameShape(a.f[k], b.f[k])
      [] a.t = "ObjectId" -> b = a \/ b.t = "string"
      [] OTHER -> b = a

\* C25: for every root and every path, applyStringifyAtPath leaves every
\* object with the field names it had and every array with the length and
\* the items, in order, it had: it only replaces the value of fields that
\* exist.
C25_StructurePreserved ==
    pc = "called" => SameShape(input, result)

C25_Witness ==
    /\ pc = "called"
    /\ pathArg = <<"contributors", Dot, "_id">>
    /\ input = PathRecord(Arr(<<Contributor(Undef), Contributor(ObjectId(172))>>))
    /\ result = PathRecord(Arr(<<Contributor(Undef), Contributor(Str("ac"))>>))

\* C26: a field named by the last segment that holds an array is left as it
\* is, ObjectId items included: under "contributors._id" a subdocument whose
\* _id is an array of ObjectIds is unchanged, and under "contributors" the
\* record is unchanged; only arrays met before the last segment is resolved
\* are walked.
C26_TerminalArrayKept ==
    /\ (pc = "called" /\ pathArg = <<"contributors", Dot, "_id">> /\ HasContributors(input)) =>
            \A j \in 1..Len(input.f["contributors"].e) :
                IsArray(Get(input.f["contributors"].e[j], "_id")) =>
                    result.f["contributors"].e[j] = input.f["contributors"].e[j]
    /\ (pc = "called" /\ pathArg = <<"contributors">> /\ HasContributors(input)) =>
            result = input

C26_Witness ==
    /\ pc = "called"
    /\ pathArg = <<"contributors", Dot, "_id">>
    /\ input = PathRecord(Arr(<<Contributor(Arr(<<ObjectId(171)>>)), Contributor(ObjectId(171))>>))
    /\ result = PathRecord(Arr(<<Contributor(Arr(<<ObjectId(171)>>)), Contributor(Str("ab"))>>))

IdempotentWithoutRename ==
    [][(Len(calls) = 1 /\ calls[1] = "success" /\ ~Truthy(Get(Lean, "rename")))
            => result' = result]_vars

\* the records that came in as objects without an _id field
WithoutId == {x \in 1..Len(InDocs) : InDocs[x].t = "object" /\ ~Has(InDocs[x], "_id")}

NoFieldAddedWithoutRename ==
    (Truthy(input) /\ ~Truthy(Get(Lean, "rename"))) =>
        \A i \in WithoutId : DOMAIN OutDocs[i].f \subseteq DOMAIN InDocs[i].f

\* every record of the query result came in with an ObjectId in _id
EachHadObjectId == Truthy(input) => \A i \in 1..Len(InDocs) : HadObjectId(InDocs[i])

\* lean was given neither showVersion nor stringifyId
DefaultsLeft == ~Has(Lean, "showVersion") /\ ~Has(Lean, "stringifyId")

\* the four plugins of plugins.js run one after another on the input
Modular == RunHooks(ReadmeOrder, 1, input, options)

\* C29: on a result whose records each carry an ObjectId _id, with
\* showVersion and stringifyId left at their defaults and any stringifyKeys
\* and rename, the all-in-one hook returns with exactly the records and the
\* continuation outcome that the plugins stringifyKeys, stringifyId,
\* deversion and rename give when run one after another on the same input.
C29_AllInOneMatchesModular ==
    (pc = "returned" /\ EachHadObjectId /\ DefaultsLeft) =>
        /\ result = Modular.result
        /\ calls[Len(calls)] = Modular.outcome

C29_Witness ==
    /\ pc = "returned"
    /\ calls = <<"success">>
    /\ input = Package(ObjectId(10), Num(0, 0), "express", Arr(<<Contributor(ObjectId(171))>>))
    /\ Lean = Present("stringifyKeys" :> Arr(<<ContributorsId>>) @@ "rename" :> Str("uid"))
    /\ result = Modular.result
    /\ Get(result, "uid") = Str("0a")
    /\ ~Has(result, "_id")
    /\ ~Has(result, "__v")
    /\ Get(result, "contributors") = Arr(<<Contributor(Str("ab"))>>)

\* the all-in-one hook and the chain of plugins also fail together
C29_WitnessError ==
    /\ pc = "returned"
    /\ calls = <<"error">>
    /\ EachHadObjectId
    /\ DefaultsLeft
    /\ Modular.outcome = "error"
    /\ result = Modular.result
    /\ result # input

====
